---- MODULE Spec2Model ----
(***************************************************************************)
(* safenv: a process-wide BTreeMap<OsString, OsString> behind one Mutex,   *)
(* with the std::env-shaped facade of src/src/env.rs.                      *)
(*                                                                         *)
(* An OsString is a sequence of bytes (Unix representation); a String is a *)
(* sequence of code points.  The map is the sorted sequence of entries a   *)
(* BTreeMap keeps.  Every thread is a caller of the facade; one call is    *)
(* the steps  call -> u_lock -> map operation and guard drop -> return.    *)
(***************************************************************************)
EXTENDS Integers, Sequences, FiniteSets, TLC

\* ------------------------------------------------------------------ bounds
NumThreads == 2

Threads == 1..NumThreads

\* ------------------------------------------------------------- byte strings
\* "K" and "L": plain keys.  "K=": a key that holds the separator.
KeyK  == <<75>>
KeyL  == <<76>>
KeyEq == <<75, 61>>
Keys  == {KeyK, KeyL}

\* "K" followed by NUL, and a key that is not UTF-8.
KeyNul == <<75, 0>>
KeyBad == <<255>>

\* The key only thread t uses, where threads keep to keys of their own:
\* "K", "L", "M", ...
OwnKey(t) == <<74 + t>>

AllKeys == Keys \cup {KeyEq, KeyNul, KeyBad} \cup {OwnKey(t) : t \in Threads}

\* A key with neither the separator '=' nor NUL.
PlainKey(k) == \A i \in 1..Len(k) : k[i] # 61 /\ k[i] # 0

\* "A", "é" (two bytes of UTF-8) and a byte sequence that is not UTF-8.
ValA   == <<65>>
ValE   == <<195, 169>>
ValBad == <<255>>
Values == {ValA, ValE, ValBad}

\* A value slot that insert has not finished writing.
PARTIAL == <<-1>>

\* A key or value of a caller's type whose as_ref() panics: K and V are any
\* AsRef<OsStr>, the conversion is the caller's code.
PANICS == <<-2>>

AsRefPanics(x) == x = PANICS

\* The value of a pair of a lazy source of fill: the pair's value is what
\* var_os(k) returns when the source is advanced to the pair ("A" for None).
FromStore(k) == <<-3>> \o k

IsFromStore(v) == v # <<>> /\ v[1] = -3

\* Ord for OsString: lexicographic over the bytes.
RECURSIVE Less(_, _)
Less(a, b) ==
    IF a = <<>> THEN b # <<>>
    ELSE IF b = <<>> THEN FALSE
    ELSE IF a[1] # b[1] THEN a[1] < b[1]
    ELSE Less(Tail(a), Tail(b))

\* A decoder that takes every byte for a code point.
FromLatin1(b) == <<"Ok", b>>

\* OsString::into_string: Ok(String) when the bytes are UTF-8 (one- and
\* two-byte forms; every other lead byte of the alphabet above is invalid),
\* the code points decoded; <<"Bad">> otherwise.
RECURSIVE FromUtf8(_)
FromUtf8(b) ==
    IF b = <<>> THEN <<"Ok", <<>>>>
    ELSE IF b[1] >= 0 /\ b[1] < 128
         THEN LET r == FromUtf8(Tail(b))
              IN  IF r[1] = "Ok" THEN <<"Ok", <<b[1]>> \o r[2]>> ELSE r
    ELSE IF b[1] >= 194 /\ b[1] <= 223 /\ Len(b) >= 2 /\ b[2] >= 128 /\ b[2] <= 191
         THEN LET r == FromUtf8(Tail(Tail(b)))
              IN  IF r[1] = "Ok"
                  THEN <<"Ok", <<(b[1] - 192) * 64 + (b[2] - 128)>> \o r[2]>>
                  ELSE r
    ELSE <<"Bad">>

\* AsRef<OsStr> for str: the UTF-8 bytes of the code points.
RECURSIVE ToOsStr(_)
ToOsStr(s) ==
    IF s = <<>> THEN <<>>
    ELSE IF s[1] < 128 THEN <<s[1]>> \o ToOsStr(Tail(s))
    ELSE <<192 + (s[1] \div 64), 128 + (s[1] % 64)>> \o ToOsStr(Tail(s))

\* ------------------------------------------------------------------ EnvMap
Entry(k, v) == [key |-> k, val |-> v]

\* The number of entries whose key sorts before k: where k is, or would go.
Rank(m, k) == Cardinality({i \in 1..Len(m) : Less(m[i].key, k)})

ContainsKey(m, k) == \E i \in 1..Len(m) : m[i].key = k

\* A get that finds no key holding '=' or NUL, as getenv finds none.
MapGetPlain(m, k) ==
    IF PlainKey(k) /\ ContainsKey(m, k)
    THEN <<"Some", m[Rank(m, k) + 1].val>>
    ELSE <<"None">>

\* A get that does not compare the key: the first entry's value.
MapGetFirst(m, k) ==
    IF m # <<>> THEN <<"Some", m[1].val>> ELSE <<"None">>

\* BTreeMap::get
MapGet(m, k) ==
    IF ContainsKey(m, k) THEN <<"Some", m[Rank(m, k) + 1].val>> ELSE <<"None">>

\* An insert that leaves an entry that is there as it is.
MapInsertKeep(m, k, v) ==
    IF ContainsKey(m, k)
    THEN m
    ELSE SubSeq(m, 1, Rank(m, k)) \o <<Entry(k, v)>> \o SubSeq(m, Rank(m, k) + 1, Len(m))

\* An insert that never replaces: the new entry goes last.
MapInsertAppend(m, k, v) == Append(m, Entry(k, v))

\* BTreeMap::insert: the value of an entry under k is replaced, a new entry goes
\* to its place in key order.
MapInsert(m, k, v) ==
    IF ContainsKey(m, k)
    THEN [m EXCEPT ![Rank(m, k) + 1] = Entry(k, v)]
    ELSE SubSeq(m, 1, Rank(m, k)) \o <<Entry(k, v)>> \o SubSeq(m, Rank(m, k) + 1, Len(m))

\* A remove that does not compare the key it finds: the entry at the place of
\* k goes, whatever its key.
MapRemoveAt(m, k) ==
    SubSeq(m, 1, Rank(m, k)) \o SubSeq(m, Rank(m, k) + 2, Len(m))

\* A remove that takes the entries before k with it.
MapRemoveUpTo(m, k) ==
    IF ContainsKey(m, k) THEN SubSeq(m, Rank(m, k) + 2, Len(m)) ELSE m

\* A remove that removes nothing.
MapRemoveNothing(m, k) == m

\* BTreeMap::remove
MapRemove(m, k) ==
    IF ContainsKey(m, k)
    THEN SubSeq(m, 1, Rank(m, k)) \o SubSeq(m, Rank(m, k) + 2, Len(m))
    ELSE m

\* A clone that misses the last entry.
MapCloneShort(m) == SubSeq(m, 1, Len(m) - 1)

\* BTreeMap::clone().into_iter(): the entries, in key order.
MapClone(m) == m

\* ------------------------------------------------------------------- state
VARIABLES
    env_map,    \* ENV_MAP's contents: entries sorted by key
    lock,       \* the thread holding ENV_MAP's guard, 0 when the mutex is free
    pc,         \* pc[t]: where thread t is in its call
    op,         \* op[t]: the call thread t is in
    ret,        \* ret[t]: the call thread t made last and what it returned
    iter,       \* iter[t]: the VarsOs / Vars the thread owns
    seq_map,    \* history: the map the calls build when run in lock order
    expect,     \* history: expect[t], what the call gets from seq_map
    written,    \* history: written[k], the latest write to k in lock order
    last_set,   \* history: last_set[t], the value of t's latest set_var call
    poisoned,   \* ENV_MAP's poison flag (std::sync::Mutex)
    parking_lot,\* the build: feature "parking_lot" on, a Mutex without poisoning
    rmw         \* rmw[t]: what a caller keeps between a var and the set_var it
                \* derives from it (read), and, history, the write of another
                \* thread that took effect since that var (missed)

vars == <<env_map, lock, pc, op, ret, iter, seq_map, expect, written, last_set,
          poisoned, parking_lot, rmw>>

\* holds counts the times the call has taken the guard.
Op(name, k, v, src) ==
    [name |-> name, key |-> k, val |-> v, src |-> src, idx |-> 1, holds |-> 0]

NoOp   == [name |-> "none", key |-> <<>>, val |-> <<>>, src |-> <<>>, idx |-> 0,
           holds |-> 0]
Unit   == <<"Unit">>
NoIter == [live |-> FALSE]

Ret(name, k, value) == [name |-> name, key |-> k, value |-> value]

NoRet == Ret("none", <<>>, Unit)

NoRmw == [read |-> <<"None">>, missed |-> <<"None">>]

\* The pair sequences handed to fill, and the OS environment inherit reads.
SrcSameKey == <<Entry(KeyK, ValA), Entry(KeyK, ValE)>>
SrcTwoKeys == <<Entry(KeyK, ValA), Entry(KeyL, ValE)>>
Sources    == {<<>>, SrcSameKey, SrcTwoKeys}
OsEnviron  == {SrcTwoKeys}

Readers == {"var_os", "var"}
Listers == {"vars_os", "vars"}
Fillers == {"fill", "inherit"}
Setters == {"set_var"} \cup Fillers

\* The key and value of the set_var a thread is in: its own arguments, or the
\* pair fill / inherit has reached.
CurKey(t) == IF op[t].name \in Fillers THEN op[t].src[op[t].idx].key ELSE op[t].key
CurVal(t) == IF op[t].name \in Fillers THEN op[t].src[op[t].idx].val ELSE op[t].val

\* A var that takes a value it cannot decode for no value.
VarResultAbsent(raw) ==
    IF raw[1] = "None" THEN <<"NotPresent">>
    ELSE LET s == FromUtf8(raw[2])
         IN  IF s[1] = "Ok" THEN <<"Ok", s[2]>> ELSE <<"NotPresent">>

\* var: the match on var_os's result.
VarResult(raw) ==
    IF raw[1] = "None" THEN <<"NotPresent">>
    ELSE LET s == FromUtf8(raw[2])
         IN  IF s[1] = "Ok" THEN <<"Ok", s[2]>> ELSE <<"NotUnicode", raw[2]>>

\* ----------------------------------------------------------------- history
\* The entries of the sequential map, as a set.
EntriesOf(f) == {Entry(k, f[k][2]) : k \in {x \in DOMAIN f : f[x][1] = "Some"}}

\* What the call of thread t does to the sequential map, and what it gets.
SeqEffect(t) ==
    IF op[t].name \in Setters THEN [seq_map EXCEPT ![CurKey(t)] = <<"Some", CurVal(t)>>]
    ELSE IF op[t].name = "remove_var" THEN [seq_map EXCEPT ![op[t].key] = <<"None">>]
    ELSE seq_map

SeqResult(t) ==
    IF op[t].name = "var_os" THEN seq_map[op[t].key]
    ELSE IF op[t].name = "var" THEN VarResult(seq_map[op[t].key])
    ELSE IF op[t].name \in Listers THEN EntriesOf(seq_map)
    ELSE Unit

\* The write a call makes, for the history: what it writes, by which function,
\* and the kind of the write to the key it follows.
NoWrite == [kind |-> "none", val |-> <<>>, via |-> "none", src |-> <<>>, idx |-> 0,
            prev |-> "none"]

WrittenBy(t) ==
    IF op[t].name \in Setters
    THEN [written EXCEPT ![CurKey(t)] =
            [kind |-> "set", val |-> CurVal(t), via |-> op[t].name,
             src |-> op[t].src, idx |-> IF op[t].name \in Fillers THEN op[t].idx ELSE 0,
             prev |-> @.kind]]
    ELSE IF op[t].name = "remove_var"
    THEN [written EXCEPT ![op[t].key] =
            [kind |-> "remove", val |-> <<>>, via |-> "remove_var",
             src |-> <<>>, idx |-> 0, prev |-> @.kind]]
    ELSE written

\* -------------------------------------------------------------------- Init
Init ==
    /\ env_map = <<>>
    /\ lock = 0
    /\ pc = [t \in Threads |-> "idle"]
    /\ op = [t \in Threads |-> NoOp]
    /\ ret = [t \in Threads |-> NoRet]
    /\ iter = [t \in Threads |-> NoIter]
    /\ seq_map = [k \in AllKeys |-> <<"None">>]
    /\ expect = [t \in Threads |-> Unit]
    /\ written = [k \in AllKeys |-> NoWrite]
    /\ last_set = [t \in Threads |-> <<"None">>]
    /\ poisoned = FALSE
    /\ parking_lot = FALSE
    /\ rmw = [t \in Threads |-> NoRmw]

\* ----------------------------------------------------------------- actions
\* A thread enters a facade function.  fill and inherit with nothing to
\* iterate return at once.
Call(t, o) ==
    /\ pc[t] = "idle"
    /\ expect' = [expect EXCEPT ![t] = Unit]
    /\ IF o.name \in Fillers /\ o.src = <<>>
       THEN /\ pc' = pc
            /\ op' = op
            /\ ret' = [ret EXCEPT ![t] = Ret(o.name, <<>>, Unit)]
       ELSE /\ pc' = [pc EXCEPT ![t] = "lock"]
            /\ op' = [op EXCEPT ![t] = o]
            /\ ret' = [ret EXCEPT ![t] = NoRet]
    /\ UNCHANGED <<env_map, lock, iter, seq_map>>

var_os(t, K)     == \E k \in K : Call(t, Op("var_os", k, <<>>, <<>>))
var(t, K)        == \E k \in K : Call(t, Op("var", k, <<>>, <<>>))
set_var(t, P)    == \E p \in P : Call(t, Op("set_var", p.key, p.val, <<>>))
remove_var(t, K) == \E k \in K : Call(t, Op("remove_var", k, <<>>, <<>>))
vars_os(t)       == Call(t, Op("vars_os", <<>>, <<>>, <<>>))
vars_(t)         == Call(t, Op("vars", <<>>, <<>>, <<>>))
fill(t, S)       == \E src \in S : Call(t, Op("fill", <<>>, <<>>, src))
inherit(t, S)    == \E env \in S : Call(t, Op("inherit", <<>>, <<>>, env))

\* A guard that is never dropped: the mutex stays with the thread.
GuardLeaked(t) == t

\* A guard that fill and inherit keep until their last pair.
GuardKeptByFill(t) == IF op[t].name \in Fillers /\ op[t].idx < Len(op[t].src) THEN t ELSE 0

\* MutexGuard::drop, at the end of the statement that locked or by unwinding:
\* the mutex is free.
Unlocked(t) == 0

\* A facade whose own code panics under the guard, whatever the arguments.
PanickingAlways(t) == op[t].name \in Readers \cup Setters \cup {"remove_var"}

\* The call of t is about to evaluate an as_ref() that panics.
Panicking(t) ==
    /\ op[t].name \in Readers \cup Setters \cup {"remove_var"}
    /\ AsRefPanics(CurKey(t)) \/ AsRefPanics(CurVal(t))

\* A lock that hands out the guard of a poisoned mutex as Ok.
PoisonIgnored == FALSE

\* Mutex::lock: Err(PoisonError) when the mutex is poisoned.
IsPoisoned == poisoned

\* A mutex that lets every caller in.
LockNever(t) == TRUE

\* Mutex::lock: blocks until the mutex is free.
LockFree(t) == lock = 0

\* ENV_MAP.u_lock().unwrap(): the thread gets the guard.  The call takes its
\* place in the lock order here.  unwrap's Err is a poisoned mutex, left by a
\* panic under the guard: no step below panics while it holds the guard
\* (Vars::next panics on the caller's own snapshot, the guard long dropped).
u_lock(t) ==
    /\ pc[t] = "lock"
    /\ LockFree(t)
    /\ ~IsPoisoned
    /\ ~IsFromStore(CurVal(t))
    /\ lock' = t
    /\ pc' = [pc EXCEPT ![t] = "crit"]
    /\ op' = [op EXCEPT ![t].holds = @ + 1]
    /\ seq_map' = IF Panicking(t) THEN seq_map ELSE SeqEffect(t)
    /\ expect' = [expect EXCEPT ![t] = IF Panicking(t) THEN Unit ELSE SeqResult(t)]
    /\ UNCHANGED <<env_map, ret, iter>>

\* var_os: .get(key).map(to_owned) under the guard, the guard dropped at the
\* end of the expression; var decodes what var_os returned.
GetOwned(t) ==
    /\ pc[t] = "crit"
    /\ op[t].name \in Readers
    /\ ~Panicking(t)
    /\ LET raw == MapGet(env_map, op[t].key)
       IN  ret' = [ret EXCEPT ![t] = Ret(op[t].name, op[t].key,
                        IF op[t].name = "var" THEN VarResult(raw) ELSE raw)]
    /\ lock' = Unlocked(t)
    /\ pc' = [pc EXCEPT ![t] = "idle"]
    /\ op' = [op EXCEPT ![t] = NoOp]
    /\ UNCHANGED <<env_map, iter, seq_map, expect>>

\* set_var: insert under the guard.  The entry's slot is written in more than
\* one store: it is in the map, its value not yet whole, after the first.
InsertSlot(t) ==
    /\ pc[t] = "crit"
    /\ op[t].name \in Setters
    /\ ~Panicking(t)
    /\ env_map' = MapInsert(env_map, CurKey(t), PARTIAL)
    /\ pc' = [pc EXCEPT ![t] = "write"]
    /\ UNCHANGED <<lock, op, ret, iter, seq_map, expect>>

\* A loop that ends after its first pair.
MorePairsNever(o) == FALSE

\* for (key, value) in env: whether the iterator has another pair.
MorePairs(o) == o.idx < Len(o.src)

\* The insert completes and the guard is dropped; fill and inherit go on to
\* their next pair, if any.
InsertValue(t) ==
    /\ pc[t] = "write"
    /\ env_map' = MapInsert(env_map, CurKey(t), CurVal(t))
    /\ lock' = Unlocked(t)
    /\ IF op[t].name \in Fillers /\ MorePairs(op[t])
       THEN /\ op' = [op EXCEPT ![t].idx = @ + 1]
            /\ pc' = [pc EXCEPT ![t] = "lock"]
            /\ ret' = ret
       ELSE /\ op' = [op EXCEPT ![t] = NoOp]
            /\ pc' = [pc EXCEPT ![t] = "idle"]
            /\ ret' = [ret EXCEPT ![t] = Ret(op[t].name, <<>>, Unit)]
    /\ UNCHANGED <<iter, seq_map, expect>>

\* remove_var: remove under the guard, the guard dropped.
RemoveEntry(t) ==
    /\ pc[t] = "crit"
    /\ op[t].name = "remove_var"
    /\ ~Panicking(t)
    /\ env_map' = MapRemove(env_map, op[t].key)
    /\ lock' = Unlocked(t)
    /\ pc' = [pc EXCEPT ![t] = "idle"]
    /\ op' = [op EXCEPT ![t] = NoOp]
    /\ ret' = [ret EXCEPT ![t] = Ret("remove_var", <<>>, Unit)]
    /\ UNCHANGED <<iter, seq_map, expect>>

\* vars_os / vars: the map cloned under the guard into an iterator the caller
\* owns, the guard dropped.
CloneIntoIter(t) ==
    /\ pc[t] = "crit"
    /\ op[t].name \in Listers
    /\ iter' = [iter EXCEPT ![t] = [live |-> TRUE, inner |-> MapClone(env_map),
                                    text |-> op[t].name = "vars",
                                    taken |-> expect[t], yielded |-> {}]]
    /\ lock' = Unlocked(t)
    /\ pc' = [pc EXCEPT ![t] = "idle"]
    /\ op' = [op EXCEPT ![t] = NoOp]
    /\ ret' = [ret EXCEPT ![t] = Ret(op[t].name, <<>>, <<"Iter">>)]
    /\ UNCHANGED <<env_map, seq_map, expect>>

\* A Vars::next whose unwrap fails on every pair.
DecodableNever(e) == FALSE

\* VarsOs::next and Vars::next: the next pair of the snapshot; Vars unwraps the
\* decoding of key and value, and panics on a pair that is not UTF-8.
Decodable(e) == FromUtf8(e.key)[1] = "Ok" /\ FromUtf8(e.val)[1] = "Ok"

NextItem(t) ==
    /\ pc[t] = "idle"
    /\ iter[t].live
    /\ IF iter[t].inner = <<>>
       THEN /\ ret' = [ret EXCEPT ![t] = Ret("next", <<>>, <<"None">>)]
            /\ UNCHANGED <<iter, pc>>
       ELSE LET e == Head(iter[t].inner)
            IN  IF iter[t].text /\ ~Decodable(e)
                THEN /\ pc' = [pc EXCEPT ![t] = "panicked"]
                     /\ ret' = [ret EXCEPT ![t] = Ret("next", <<>>, <<"Panic">>)]
                     /\ iter' = [iter EXCEPT ![t] = NoIter]
                ELSE /\ pc' = pc
                     /\ ret' = [ret EXCEPT ![t] = Ret("next", <<>>,
                            IF iter[t].text
                            THEN <<"Some", FromUtf8(e.key)[2], FromUtf8(e.val)[2]>>
                            ELSE <<"Some", e.key, e.val>>)]
                     /\ iter' = [iter EXCEPT ![t].inner = Tail(@),
                                             ![t].yielded = @ \cup {e}]
    /\ UNCHANGED <<env_map, lock, op, seq_map, expect>>

\* The caller drops the iterator.
DropIter(t) ==
    /\ pc[t] = "idle"
    /\ iter[t].live
    /\ iter' = [iter EXCEPT ![t] = NoIter]
    /\ UNCHANGED <<env_map, lock, pc, op, ret, seq_map, expect>>

\* The steps of a call that holds the guard.
Finish(t) ==
    \/ GetOwned(t)
    \/ InsertSlot(t)
    \/ InsertValue(t)
    \/ RemoveEntry(t)
    \/ CloneIntoIter(t)

\* A conversion of the call's arguments panics: key.as_ref() and value.as_ref()
\* are evaluated after ENV_MAP.u_lock().unwrap(), with the guard alive.  The
\* unwinding drops the guard; std's guard marks the mutex poisoned, parking_lot's
\* does not.
PanicUnderGuard(t) ==
    /\ pc[t] = "crit"
    /\ Panicking(t)
    /\ lock' = Unlocked(t)
    /\ poisoned' = ~parking_lot
    /\ pc' = [pc EXCEPT ![t] = "panicked"]
    /\ op' = [op EXCEPT ![t] = NoOp]
    /\ ret' = [ret EXCEPT ![t] = Ret(op[t].name, <<>>, <<"Panic">>)]
    /\ UNCHANGED <<env_map, iter, seq_map, expect>>

\* Mutex::lock on a poisoned mutex: the lock is taken and comes back inside
\* Err(PoisonError { guard }).
u_lock_err(t) ==
    /\ pc[t] = "lock"
    /\ LockFree(t)
    /\ IsPoisoned
    /\ lock' = t
    /\ pc' = [pc EXCEPT ![t] = "unwrap"]
    /\ op' = [op EXCEPT ![t].holds = @ + 1]
    /\ UNCHANGED <<env_map, ret, iter, seq_map, expect>>

\* .unwrap() on the Err panics; the guard inside the error is dropped by the
\* unwinding.
UnwrapPanics(t) ==
    /\ pc[t] = "unwrap"
    /\ lock' = Unlocked(t)
    /\ pc' = [pc EXCEPT ![t] = "panicked"]
    /\ op' = [op EXCEPT ![t] = NoOp]
    /\ ret' = [ret EXCEPT ![t] = Ret(op[t].name, <<>>, <<"Panic">>)]
    /\ UNCHANGED <<env_map, iter, seq_map, expect>>

\* fill advances a lazy source to its next pair before it calls set_var: the
\* source's next() calls var_os, which locks ENV_MAP ...
SourceLock(t) ==
    /\ pc[t] = "lock"
    /\ op[t].name \in Fillers
    /\ IsFromStore(CurVal(t))
    /\ LockFree(t)
    /\ ~IsPoisoned
    /\ lock' = t
    /\ pc' = [pc EXCEPT ![t] = "source"]
    /\ UNCHANGED <<env_map, op, ret, iter, seq_map, expect>>

\* ... reads the key, drops the guard, and yields the pair.
SourceGet(t) ==
    /\ pc[t] = "source"
    /\ LET raw == MapGet(env_map, Tail(CurVal(t)))
           v   == IF raw[1] = "Some" THEN raw[2] ELSE ValA
       IN  op' = [op EXCEPT ![t].src[op[t].idx].val = v]
    /\ lock' = Unlocked(t)
    /\ pc' = [pc EXCEPT ![t] = "lock"]
    /\ UNCHANGED <<env_map, ret, iter, seq_map, expect>>

\* The builds: std's Mutex, or parking_lot's with the feature on.
InitBuilds ==
    /\ env_map = <<>>
    /\ lock = 0
    /\ pc = [t \in Threads |-> "idle"]
    /\ op = [t \in Threads |-> NoOp]
    /\ ret = [t \in Threads |-> NoRet]
    /\ iter = [t \in Threads |-> NoIter]
    /\ seq_map = [k \in AllKeys |-> <<"None">>]
    /\ expect = [t \in Threads |-> Unit]
    /\ written = [k \in AllKeys |-> NoWrite]
    /\ last_set = [t \in Threads |-> <<"None">>]
    /\ poisoned = FALSE
    /\ parking_lot \in BOOLEAN
    /\ rmw = [t \in Threads |-> NoRmw]

\* --------------------------------------------------------- specifications
\* The pairs the threads of the concurrent specifications set.
ConcPairs == {Entry(KeyK, ValA), Entry(KeyK, ValBad), Entry(KeyL, ValE)}

\* Spec: threads calling get, set, remove, list and fill concurrently.
Next ==
    /\ \E t \in Threads :
        \/ /\ ~iter[t].live
           /\ \/ var_os(t, Keys)
              \/ set_var(t, ConcPairs)
              \/ remove_var(t, Keys)
              \/ vars_os(t)
              \/ fill(t, {SrcTwoKeys})
        \/ u_lock(t)
        \/ Finish(t)
        \/ DropIter(t)
    /\ UNCHANGED <<written, last_set, poisoned, parking_lot, rmw>>

Spec == Init /\ [][Next]_vars

\* SpecMutex: threads calling every function of the facade on one key.
NextMutex ==
    /\ \E t \in Threads :
        \/ /\ ~iter[t].live
           /\ \/ var_os(t, {KeyK})
              \/ var(t, {KeyK})
              \/ set_var(t, {Entry(KeyK, ValBad)})
              \/ remove_var(t, {KeyK})
              \/ vars_os(t)
              \/ vars_(t)
              \/ fill(t, {<<Entry(KeyK, ValA)>>})
              \/ inherit(t, {<<Entry(KeyK, ValA)>>})
        \/ u_lock(t)
        \/ Finish(t)
        \/ NextItem(t)
        \/ DropIter(t)
    /\ UNCHANGED <<written, last_set, poisoned, parking_lot, rmw>>

SpecMutex == Init /\ [][NextMutex]_vars

\* SpecSnap: thread 1 takes snapshots and iterates them while it and the other
\* threads write.
NextSnap ==
    /\ \E t \in Threads :
        \/ /\ t = 1
           /\ \/ ~iter[t].live /\ vars_os(t)
              \/ NextItem(t)
              \/ DropIter(t)
        \/ set_var(t, ConcPairs)
        \/ remove_var(t, Keys)
        \/ fill(t, {SrcTwoKeys})
        \/ u_lock(t)
        \/ Finish(t)
    /\ UNCHANGED <<written, last_set, poisoned, parking_lot, rmw>>

SpecSnap == Init /\ [][NextSnap]_vars

\* SpecDisjoint: every thread calls set_var, var and remove_var on a key of
\* its own.
NextDisjoint ==
    \E t \in Threads :
        \/ /\ \E v \in Values :
                /\ set_var(t, {Entry(OwnKey(t), v)})
                /\ last_set' = [last_set EXCEPT ![t] = <<"Some", v>>]
           /\ UNCHANGED <<written, poisoned, parking_lot, rmw>>
        \/ /\ \/ var(t, {OwnKey(t)})
              \/ remove_var(t, {OwnKey(t)})
              \/ u_lock(t)
              \/ Finish(t)
           /\ UNCHANGED <<written, last_set, poisoned, parking_lot, rmw>>

SpecDisjoint == Init /\ [][NextDisjoint]_vars

\* SpecSeq: one thread calling every function of the facade, one call after
\* the other.
SeqKeys == {KeyK, KeyEq}

NextSeq ==
    \/ /\ ~iter[1].live
       /\ \/ var_os(1, SeqKeys)
          \/ var(1, SeqKeys)
          \/ set_var(1, {Entry(k, v) : k \in SeqKeys, v \in Values})
          \/ remove_var(1, SeqKeys)
          \/ vars_os(1)
          \/ vars_(1)
          \/ fill(1, Sources)
          \/ inherit(1, OsEnviron)
       /\ UNCHANGED <<written, last_set, poisoned, parking_lot, rmw>>
    \/ /\ u_lock(1)
       /\ written' = WrittenBy(1)
       /\ UNCHANGED <<last_set, poisoned, parking_lot, rmw>>
    \/ /\ \/ Finish(1)
          \/ DropIter(1)
       /\ UNCHANGED <<written, last_set, poisoned, parking_lot, rmw>>

SpecSeq == Init /\ [][NextSeq]_vars

\* SpecPoison: threads of either build calling the facade, some with a key or
\* value whose as_ref() panics.
NextPoison ==
    /\ \E t \in Threads :
        \/ /\ \/ /\ ~iter[t].live
                 /\ \/ var_os(t, {PANICS})
                    \/ var(t, {KeyK})
                    \/ set_var(t, {Entry(KeyK, ValBad), Entry(KeyK, PANICS)})
                    \/ remove_var(t, {PANICS})
                    \/ vars_(t)
                    \/ fill(t, {<<>>, <<Entry(KeyK, ValBad)>>})
              \/ u_lock(t)
              \/ u_lock_err(t)
              \/ UnwrapPanics(t)
              \/ Finish(t)
              \/ NextItem(t)
              \/ DropIter(t)
           /\ UNCHANGED poisoned
        \/ PanicUnderGuard(t)
    /\ UNCHANGED <<written, last_set, parking_lot, rmw>>

SpecPoison == InitBuilds /\ [][NextPoison]_vars

\* SpecLive: threads of either build calling the facade, under fair scheduling:
\* a thread that can take a step of its call takes it (WF), and a thread that
\* waits for a lock that is free again and again gets it (SF).  Nothing makes
\* a thread call, or drop an iterator.
LiveCall(t) ==
    /\ ~iter[t].live
    /\ \/ var_os(t, {KeyK})
       \/ set_var(t, {Entry(PANICS, ValA)})
       \/ vars_os(t)
       \/ fill(t, {SrcTwoKeys})
    /\ UNCHANGED <<written, last_set, poisoned, parking_lot, rmw>>

LiveAcquire(t) ==
    /\ u_lock(t) \/ u_lock_err(t)
    /\ UNCHANGED <<written, last_set, poisoned, parking_lot, rmw>>

LiveProceed(t) ==
    /\ \/ (Finish(t) \/ UnwrapPanics(t)) /\ UNCHANGED poisoned
       \/ PanicUnderGuard(t)
    /\ UNCHANGED <<written, last_set, parking_lot, rmw>>

LiveDrop(t) ==
    /\ DropIter(t)
    /\ UNCHANGED <<written, last_set, poisoned, parking_lot, rmw>>

NextLive ==
    \E t \in Threads : LiveCall(t) \/ LiveAcquire(t) \/ LiveProceed(t) \/ LiveDrop(t)

SpecLive ==
    /\ InitBuilds
    /\ [][NextLive]_vars
    /\ \A t \in Threads : SF_vars(LiveAcquire(t)) /\ WF_vars(LiveProceed(t))

\* SpecRmw: thread 1 reads "K" with var and then sets it to a value it derives
\* from what it read, with no lock of its own around the two calls; the other
\* threads set and remove "K".
\* The caller's f: "A" appended to a text of one character, "A" otherwise.
Derived(r) ==
    IF r[1] = "Ok" /\ Len(r[2]) = 1 THEN r[2] \o <<65>> ELSE <<65>>

rmw_var(t) ==
    /\ var(t, {KeyK})
    /\ rmw' = [rmw EXCEPT ![t] = NoRmw]

rmw_set_var(t) ==
    /\ ret[t].name = "var"
    /\ set_var(t, {Entry(ret[t].key, ToOsStr(Derived(ret[t].value)))})
    /\ rmw' = [rmw EXCEPT ![t].read = ret[t].value]

\* History: a var that takes the lock has missed nothing; a write that takes
\* the lock is one every other thread has missed since its var.
MissedAt(t) ==
    [u \in Threads |->
        IF u = t /\ op[t].name = "var" THEN [rmw[u] EXCEPT !.missed = <<"None">>]
        ELSE IF u = t \/ op[t].name \notin Setters \cup {"remove_var"} THEN rmw[u]
        ELSE [rmw[u] EXCEPT !.missed =
                IF op[t].name = "remove_var" THEN <<"Removed">>
                ELSE <<"Some", CurVal(t)>>]]

NextRmw ==
    /\ \/ rmw_var(1)
       \/ rmw_set_var(1)
       \/ \E t \in Threads \ {1} :
            /\ set_var(t, {Entry(KeyK, ValE)}) \/ remove_var(t, {KeyK})
            /\ UNCHANGED rmw
       \/ \E t \in Threads : u_lock(t) /\ rmw' = MissedAt(t)
       \/ \E t \in Threads : Finish(t) /\ UNCHANGED rmw
    /\ UNCHANGED <<written, last_set, poisoned, parking_lot>>

SpecRmw == Init /\ [][NextRmw]_vars

\* SpecFill: one thread, no other writer, calling fill with sources that read
\* the store: the snapshot of vars_os() it has just taken, and a lazy iterator
\* that calls var_os for the value of each pair.  The thread, once in a call,
\* goes on (WF).
LazySrc == <<Entry(KeyL, FromStore(KeyK)), Entry(KeyK, FromStore(KeyL))>>

FillCall ==
    /\ \/ /\ ~iter[1].live
          /\ \/ set_var(1, {Entry(k, v) : k \in Keys, v \in {ValA, ValE}})
             \/ remove_var(1, Keys)
             \/ vars_os(1)
             \/ fill(1, {LazySrc})
       \/ /\ iter[1].live
          /\ fill(1, {iter[1].inner})
       \/ DropIter(1)
    /\ UNCHANGED <<written, last_set, poisoned, parking_lot, rmw>>

FillProceed ==
    /\ u_lock(1) \/ SourceLock(1) \/ SourceGet(1) \/ Finish(1)
    /\ UNCHANGED <<written, last_set, poisoned, parking_lot, rmw>>

NextFill == FillCall \/ FillProceed

SpecFill == Init /\ [][NextFill]_vars /\ WF_vars(FillProceed)

\* SpecIter: one thread calling every function of the facade on keys with and
\* without '=', NUL and invalid UTF-8, and iterating the snapshots it takes.
IterKeys == {KeyK, KeyEq, KeyNul, KeyBad}

IterVals == {ValA, ValBad}

IterSrc == <<Entry(KeyNul, ValA), Entry(KeyK, ValBad)>>

NextIter ==
    /\ \/ /\ ~iter[1].live
          /\ \/ var_os(1, IterKeys)
             \/ var(1, IterKeys)
             \/ set_var(1, {Entry(k, v) : k \in IterKeys, v \in IterVals})
             \/ remove_var(1, IterKeys)
             \/ vars_os(1)
             \/ vars_(1)
             \/ fill(1, {IterSrc})
       \/ u_lock(1)
       \/ Finish(1)
       \/ NextItem(1)
       \/ DropIter(1)
    /\ UNCHANGED <<written, last_set, poisoned, parking_lot, rmw>>

SpecIter == Init /\ [][NextIter]_vars

\* ------------------------------------------------------------------ claims
Inside(t) == pc[t] \in {"crit", "write"}

Range(q) == {q[i] : i \in 1..Len(q)}

HasPartial(q) == \E i \in 1..Len(q) : q[i].val = PARTIAL

\* C1: the calls are linearized by the lock.  Every get returns what the same
\* get returns when the calls run one after the other in the order they took
\* the lock, every snapshot holds the entries of the map those calls built,
\* the map at rest is the map they built, and no result holds an entry whose
\* value was not whole.
C1_Linearizable ==
    /\ \A t \in Threads :
        /\ ret[t].name \in Readers => ret[t].value = expect[t]
        /\ ret[t].name \in Readers => ret[t].value # <<"Some", PARTIAL>>
        /\ iter[t].live =>
            /\ Range(iter[t].inner) \cup iter[t].yielded = iter[t].taken
            /\ Len(iter[t].inner) + Cardinality(iter[t].yielded)
                    = Cardinality(iter[t].taken)
            /\ ~HasPartial(iter[t].inner)
    /\ lock = 0 => \A k \in AllKeys : MapGet(env_map, k) = seq_map[k]

\* C1 happens: a get has returned a whole value of a key while another thread
\* is in the middle of writing that key's entry.
C1_Witness ==
    \E t, u \in Threads :
        /\ ret[t].name = "var_os" /\ ret[t].key = KeyK
        /\ ret[t].value = <<"Some", ValA>>
        /\ pc[u] = "write" /\ CurKey(u) = KeyK
        /\ MapGet(env_map, KeyK) = <<"Some", PARTIAL>>

\* C3: one lock, held by at most one thread: a thread is inside the guarded
\* region exactly when it is the holder of the lock, and every step that reads
\* the map into a result or changes the map is a step of the holder.
C3_MutualExclusion ==
    /\ [](/\ Cardinality({t \in Threads : Inside(t)}) <= 1
          /\ \A t \in Threads : Inside(t) <=> lock = t)
    /\ [][/\ env_map' # env_map => lock # 0 /\ Inside(lock)
          /\ \A t \in Threads :
                ret'[t] # ret[t] /\ ret'[t].name \in Readers \cup Listers
                    => lock = t /\ Inside(t)]_vars

\* C3 happens: a thread is inside the guarded region for a read while another
\* thread that has called a read waits for the lock.
C3_Witness ==
    \E t, u \in Threads :
        /\ Inside(t) /\ op[t].name = "var"
        /\ pc[u] = "lock" /\ op[u].name = "vars"

\* A fill or inherit that has set at least one of its pairs and not yet all.
MidFill(u) == op[u].name \in Fillers /\ op[u].idx > 1

\* C2 as stated: no call of another thread is inside the guarded region, where
\* it takes effect on the map or observes it, between the first and the last
\* effect of a fill or inherit.
C2_FillAtomic ==
    \A t, u \in Threads : t # u /\ MidFill(u) => ~Inside(t)

\* C2 as amended: the atomic unit is one hold of the lock.  A call of var_os,
\* var, set_var, remove_var, vars_os or vars takes the lock once, fill and
\* inherit once per pair; while a thread is inside, no other thread gets
\* inside, and a step of another thread neither changes the map nor hands that
\* thread a result or a snapshot.
C2_HoldAtomic ==
    /\ [](\A t \in Threads :
            /\ op[t].name \notin Fillers => op[t].holds <= 1
            /\ op[t].name \in Fillers =>
                    op[t].holds = IF pc[t] = "lock" THEN op[t].idx - 1 ELSE op[t].idx
            /\ pc[t] = "lock" /\ op[t].name \notin Fillers => op[t].holds = 0)
    /\ [][\A t \in Threads : Inside(t) =>
            \A u \in Threads \ {t} :
                /\ ~Inside(u)'
                /\ pc'[u] # pc[u] \/ ret'[u] # ret[u] \/ iter'[u] # iter[u] =>
                    /\ env_map' = env_map
                    /\ ret'[u] \in {ret[u], NoRet}
                    /\ iter'[u] \in {iter[u], NoIter}]_vars

\* C2 happens: a fill of (K, A), (L, E) is between its two pairs, and another
\* thread holds a snapshot with K and without L.
C2_Witness ==
    \E t, u \in Threads :
        /\ t # u
        /\ op[u].name = "fill" /\ op[u].src = SrcTwoKeys /\ MidFill(u) /\ pc[u] = "lock"
        /\ iter[t].live /\ iter[t].inner = <<Entry(KeyK, ValA)>>

\* C5: a snapshot holds exactly the entries the map had when the snapshot took
\* its place in the lock order: what it has yielded and what it has yet to
\* yield are those entries, each once, whatever has been written to the live
\* map since, and every pair next returns is one of them.
C5_SnapshotIsolation ==
    \A t \in Threads :
        /\ iter[t].live =>
            /\ Range(iter[t].inner) \cup iter[t].yielded = iter[t].taken
            /\ Len(iter[t].inner) + Cardinality(iter[t].yielded)
                    = Cardinality(iter[t].taken)
        /\ iter[t].live /\ ret[t].name = "next" /\ ret[t].value[1] = "Some" =>
                Entry(ret[t].value[2], ret[t].value[3]) \in iter[t].yielded
        /\ iter[t].live /\ ret[t].name = "next" /\ ret[t].value[1] = "None" =>
                iter[t].yielded = iter[t].taken

\* C5 happens: a snapshot taken when the map held (K, A) and (L, E) has yielded
\* (K, A) and still holds (L, E), after the live map has lost L and had K
\* overwritten.
C5_Witness ==
    /\ iter[1].live
    /\ iter[1].yielded = {Entry(KeyK, ValA)}
    /\ iter[1].inner = <<Entry(KeyL, ValE)>>
    /\ ret[1] = Ret("next", <<>>, <<"Some", KeyK, ValA>>)
    /\ lock = 0
    /\ env_map = <<Entry(KeyK, ValBad)>>

\* C6 as stated: with every thread on a key of its own, a var returns
\* Ok of the value the thread set last, or NotPresent.
C6_OwnWriteOrAbsent ==
    \A t \in Threads :
        ret[t].name = "var" =>
            \/ ret[t].value = <<"NotPresent">>
            \/ /\ last_set[t][1] = "Some"
               /\ ret[t].value[1] = "Ok"
               /\ ToOsStr(ret[t].value[2]) = last_set[t][2]

\* C6 as amended: ... or NotUnicode carrying the value the thread set last,
\* when that value is not valid text.  No var returns a value of another
\* thread or one that was never set.
C6_OwnWriteAbsentOrRaw ==
    \A t \in Threads :
        ret[t].name = "var" =>
            \/ ret[t].value = <<"NotPresent">>
            \/ /\ last_set[t][1] = "Some"
               /\ ret[t].value[1] = "Ok"
               /\ ToOsStr(ret[t].value[2]) = last_set[t][2]
            \/ /\ last_set[t][1] = "Some"
               /\ ret[t].value = <<"NotUnicode", last_set[t][2]>>
               /\ FromUtf8(last_set[t][2])[1] = "Bad"

\* C6 happens: thread 1 reads back the two-byte value it set while the map
\* holds another value under the key of thread 2, set by thread 2.
C6_Witness ==
    /\ ret[1] = Ret("var", OwnKey(1), <<"Ok", <<233>>>>)
    /\ last_set[1] = <<"Some", ValE>>
    /\ last_set[2] = <<"Some", ValA>>
    /\ MapGet(env_map, OwnKey(2)) = <<"Some", ValA>>

\* A byte string that is valid text.
ValidText(b) == FromUtf8(b)[1] = "Ok"

\* C4: round trip.  When the latest write to a plain text key k is a set of the
\* text value v, var(k) is Ok of the text whose bytes are v, and var_os(k) is
\* Some(v).
C4_RoundTrip ==
    \A t \in Threads : \A k \in AllKeys :
        /\ ret[t].name \in Readers /\ ret[t].key = k
        /\ written[k].kind = "set"
        /\ PlainKey(k) /\ ValidText(k) /\ ValidText(written[k].val)
        => /\ ret[t].name = "var" =>
                /\ ret[t].value[1] = "Ok"
                /\ ToOsStr(ret[t].value[2]) = written[k].val
           /\ ret[t].name = "var_os" => ret[t].value = <<"Some", written[k].val>>

\* C4 happens: var("K") is Ok("é") after set_var("K", "é") replaced another
\* value of K.
C4_Witness ==
    /\ ret[1] = Ret("var", KeyK, <<"Ok", <<233>>>>)
    /\ written[KeyK].kind = "set" /\ written[KeyK].via = "set_var"
    /\ written[KeyK].val = ValE /\ written[KeyK].prev = "set"

\* C7: absence.  The map holds nothing before the first write, and for a key
\* never written, or whose latest write is a remove, var is NotPresent and
\* var_os is None.
C7_Absence ==
    /\ (\A k \in AllKeys : written[k].kind = "none") => env_map = <<>>
    /\ \A t \in Threads : \A k \in AllKeys :
        /\ ret[t].name \in Readers /\ ret[t].key = k
        /\ written[k].kind \in {"none", "remove"}
        => /\ ret[t].name = "var" => ret[t].value = <<"NotPresent">>
           /\ ret[t].name = "var_os" => ret[t].value = <<"None">>

\* C7 happens: var("K") is NotPresent after a remove_var of a K that was set,
\* with another key still in the map.
C7_Witness ==
    /\ ret[1] = Ret("var", KeyK, <<"NotPresent">>)
    /\ written[KeyK].kind = "remove" /\ written[KeyK].prev = "set"
    /\ env_map # <<>>

\* C8: overwrite and key uniqueness.  No two entries of the map, and no two
\* pairs of a snapshot, have the same key; and after a set of k that follows a
\* set of k, var(k) is Ok of the second value.
C8_Overwrite ==
    /\ \A i, j \in 1..Len(env_map) : i # j => env_map[i].key # env_map[j].key
    /\ \A t \in Threads :
        /\ iter[t].live =>
            \A i, j \in 1..Len(iter[t].inner) :
                i # j => iter[t].inner[i].key # iter[t].inner[j].key
        /\ \A k \in AllKeys :
            /\ ret[t].name = "var" /\ ret[t].key = k
            /\ written[k].kind = "set" /\ written[k].prev = "set"
            /\ ValidText(written[k].val)
            => /\ ret[t].value[1] = "Ok"
               /\ ToOsStr(ret[t].value[2]) = written[k].val

\* C8 happens: var("K=") is Ok("A") after a set that overwrote, the map holding
\* two entries.
C8_Witness ==
    /\ ret[1] = Ret("var", KeyEq, <<"Ok", ValA>>)
    /\ written[KeyEq].kind = "set" /\ written[KeyEq].prev = "set"
    /\ Len(env_map) >= 2

\* The step in which a remove_var call removes and returns.
Removes(t) == pc[t] = "crit" /\ op[t].name = "remove_var" /\ pc'[t] = "idle"

\* C9: removal is idempotent.  A remove_var of a key that is absent, and so a
\* remove_var that follows a remove_var of the same key, leaves the map as it
\* is; a remove_var leaves the key absent and every other entry as it was; and
\* var is NotPresent after one remove as after two.
C9_RemoveIdempotent ==
    /\ [][\A t \in Threads : Removes(t) =>
            /\ ~ContainsKey(env_map, op[t].key) => env_map' = env_map
            /\ written[op[t].key].prev = "remove" => env_map' = env_map
            /\ ~ContainsKey(env_map', op[t].key)
            /\ \A k \in AllKeys \ {op[t].key} :
                    MapGet(env_map', k) = MapGet(env_map, k)]_vars
    /\ [](\A t \in Threads : \A k \in AllKeys :
            ret[t].name = "var" /\ ret[t].key = k /\ written[k].kind = "remove"
                => ret[t].value = <<"NotPresent">>)

\* C9 happens: var("K") is NotPresent after two remove_var("K") in a row, with
\* another key still in the map.
C9_Witness ==
    /\ ret[1] = Ret("var", KeyK, <<"NotPresent">>)
    /\ written[KeyK].kind = "remove" /\ written[KeyK].prev = "remove"
    /\ env_map # <<>>

\* The place of the last pair of src with key k.
LastIndex(src, k) ==
    CHOOSE i \in 1..Len(src) :
        src[i].key = k /\ \A j \in (i + 1)..Len(src) : src[j].key # k

\* C10: fill ordering.  fill and inherit take the lock once per pair, for the
\* pairs in source order, and return after the last; with no call under way,
\* a key last written by a fill holds the value of the last pair of the source
\* with that key, var of it returns that value, and the map is the map the
\* same sets build one after the other.
C10_FillOrdering ==
    /\ [][\A t \in Threads : op[t].name \in Fillers =>
            /\ pc[t] = "lock" /\ pc'[t] = "crit" => op[t].idx = op[t].holds + 1
            /\ pc[t] = "write" /\ pc'[t] = "lock" => op'[t].idx = op[t].idx + 1
            /\ pc[t] = "write" /\ pc'[t] = "idle" =>
                    op[t].idx = Len(op[t].src) /\ op[t].holds = Len(op[t].src)]_vars
    /\ []((\A t \in Threads : pc[t] = "idle") =>
            /\ \A k \in AllKeys : MapGet(env_map, k) = seq_map[k]
            /\ \A k \in AllKeys : written[k].via \in Fillers =>
                LET w == written[k]
                    v == w.src[LastIndex(w.src, k)].val
                IN  /\ w.idx = LastIndex(w.src, k)
                    /\ MapGet(env_map, k) = <<"Some", v>>
                    /\ \A t \in Threads :
                        ret[t].name = "var" /\ ret[t].key = k
                            => ret[t].value = VarResult(<<"Some", v>>))

\* C10 happens: var("K") is Ok("é") after fill([("K", "A"), ("K", "é")]).
C10_Witness ==
    /\ ret[1] = Ret("var", KeyK, <<"Ok", <<233>>>>)
    /\ written[KeyK].via = "fill" /\ written[KeyK].src = SrcSameKey
    /\ written[KeyK].idx = 2

Facade == {"var_os", "var", "set_var", "remove_var", "vars_os", "vars", "fill"}

\* C12 as stated: once the lock is poisoned, every call of a function of the
\* facade ends in a panic, and no step changes the map.
C12_PoisonedCallsPanic ==
    [][poisoned =>
        /\ env_map' = env_map
        /\ \A t \in Threads :
            ret'[t] # ret[t] /\ ret'[t].name \in Facade
                => ret'[t].value = <<"Panic">>]_vars

\* C12 for the calls that reach the lock: once the lock is poisoned no step
\* changes the map, no thread gets to the map operation of its call, and every
\* call that returns is a panic, but for a fill that had no pair to set.
C12_PoisonedLockPanics ==
    /\ [](poisoned => \A t \in Threads : pc[t] \notin {"crit", "write"})
    /\ [][poisoned =>
            /\ env_map' = env_map
            /\ \A t \in Threads :
                ret'[t] # ret[t] /\ ret'[t].name \in Facade
                    => \/ ret'[t].value = <<"Panic">>
                       \/ ret'[t].name = "fill" /\ pc[t] = "idle"]_vars

\* C12 happens: the lock is poisoned, the map holds an entry, and a var has
\* ended in a panic.
C12_Witness ==
    \E t \in Threads :
        /\ poisoned
        /\ ret[t] = Ret("var", <<>>, <<"Panic">>)
        /\ env_map = <<Entry(KeyK, ValBad)>>

\* C19 as stated: the lock is never poisoned, and no thread that holds the
\* lock panics.
C19_NeverPoisoned ==
    /\ ~poisoned
    /\ \A t \in Threads : pc[t] = "crit" => ~Panicking(t)

\* C19 as amended: the lock becomes poisoned only by a call whose key or value
\* conversion, the caller's code, panics under the guard, and only in the std
\* build; the panic of Vars::next is a step of a thread that does not hold the
\* lock and leaves lock and poison flag as they are; and a call panics at the
\* lock only when the lock is poisoned.
C19_PoisonedOnlyByConversion ==
    /\ [][~poisoned /\ poisoned' =>
            /\ ~parking_lot
            /\ \E t \in Threads :
                /\ pc[t] = "crit" /\ pc'[t] = "panicked"
                /\ AsRefPanics(CurKey(t)) \/ AsRefPanics(CurVal(t))]_vars
    /\ [][\A t \in Threads :
            pc[t] = "crit" /\ pc'[t] = "panicked" =>
                AsRefPanics(CurKey(t)) \/ AsRefPanics(CurVal(t))]_vars
    /\ [][\A t \in Threads :
            pc[t] # "panicked" /\ pc'[t] = "panicked" /\ ret'[t].name = "next" =>
                lock # t /\ lock' = lock /\ poisoned' = poisoned]_vars
    /\ [](\A t \in Threads : pc[t] = "unwrap" => poisoned)

\* C19 happens: a thread has panicked in Vars::next, the lock is not poisoned,
\* and another thread is inside a set_var.
C19_Witness ==
    \E t, u \in Threads :
        /\ pc[t] = "panicked" /\ ret[t] = Ret("next", <<>>, <<"Panic">>)
        /\ ~poisoned /\ ~parking_lot
        /\ pc[u] = "crit" /\ op[u].name = "set_var" /\ lock = u

\* C13: the result of var(k) against the entry of k, which the call leaves as
\* it is: NotUnicode(r), the stored bytes, when r is not valid text, and no
\* panic; Ok(t) exactly when k is present with an r that decodes to t; and
\* var_os(k) is Some(r) whatever r is.  No step of var or var_os changes the
\* map.
C13_NotUnicodeCarriesRaw ==
    /\ [](\A t \in Threads :
            pc[t] = "idle" /\ ret[t].name \in Readers =>
                LET raw == MapGet(env_map, ret[t].key)
                IN  /\ ret[t].value # <<"Panic">>
                    /\ ret[t].name = "var_os" => ret[t].value = raw
                    /\ ret[t].name = "var" /\ raw[1] = "Some" /\ ~ValidText(raw[2])
                            => ret[t].value = <<"NotUnicode", raw[2]>>
                    /\ ret[t].name = "var" =>
                            (ret[t].value[1] = "Ok" <=>
                                raw[1] = "Some" /\ ValidText(raw[2]))
                    /\ ret[t].name = "var" /\ ret[t].value[1] = "Ok"
                            => ret[t].value[2] = FromUtf8(raw[2])[2])
    /\ [][\A t \in Threads :
            pc[t] \in {"lock", "crit"} /\ op[t].name \in Readers
                /\ pc'[t] # pc[t] => env_map' = env_map]_vars

\* C13 happens: var("K=") is NotUnicode of the stored bytes, which are still
\* in the map.
C13_Witness ==
    /\ ret[1] = Ret("var", KeyEq, <<"NotUnicode", ValBad>>)
    /\ MapGet(env_map, KeyEq) = <<"Some", ValBad>>
    /\ pc[1] = "idle"

\* A step of next() on the iterator of thread t.
NextStep(t) ==
    /\ pc[t] = "idle" /\ iter[t].live
    /\ \/ pc'[t] = "panicked"
       \/ iter'[t].live /\ iter'[t] # iter[t]
       \/ ret'[t] # ret[t]

\* C14: vars() returns an iterator whatever the map holds; a next() of it
\* panics exactly when the pair it has reached has a key or a value that is
\* not valid text, and yields the decoded pair otherwise, so the pairs before
\* that one in key order are yielded; a next() of vars_os() never panics, and
\* yields every pair of the map.
C14_PanicAtIteration ==
    /\ [][\A t \in Threads :
            pc[t] = "crit" /\ op[t].name \in Listers /\ pc'[t] # pc[t] =>
                /\ pc'[t] = "idle"
                /\ ret'[t] = Ret(op[t].name, <<>>, <<"Iter">>)
                /\ iter'[t].live
                /\ iter'[t].inner = env_map]_vars
    /\ [][\A t \in Threads :
            NextStep(t) /\ iter[t].inner # <<>> =>
                LET e == Head(iter[t].inner)
                IN  IF iter[t].text /\ ~(ValidText(e.key) /\ ValidText(e.val))
                    THEN pc'[t] = "panicked" /\ ret'[t].value = <<"Panic">>
                    ELSE /\ pc'[t] = "idle"
                         /\ iter'[t].inner = Tail(iter[t].inner)
                         /\ iter[t].text =>
                                /\ ret'[t].value[1] = "Some"
                                /\ ToOsStr(ret'[t].value[2]) = e.key
                                /\ ToOsStr(ret'[t].value[3]) = e.val
                         /\ ~iter[t].text =>
                                ret'[t].value = <<"Some", e.key, e.val>>]_vars
    /\ [][\A t \in Threads :
            NextStep(t) /\ iter[t].inner = <<>> =>
                pc'[t] = "idle" /\ ret'[t].value = <<"None">>]_vars
    /\ [](\A t \in Threads : iter[t].live =>
            /\ \A y \in iter[t].yielded : \A i \in 1..Len(iter[t].inner) :
                    Less(y.key, iter[t].inner[i].key)
            /\ iter[t].text =>
                    \A y \in iter[t].yielded : ValidText(y.key) /\ ValidText(y.val)
            /\ Range(iter[t].inner) \cup iter[t].yielded = Range(env_map))

\* C14 happens: a next() of vars() has panicked at ("K=", not UTF-8), after
\* ("K", "A").
C14_Witness ==
    /\ pc[1] = "panicked"
    /\ ret[1] = Ret("next", <<>>, <<"Panic">>)
    /\ env_map = <<Entry(KeyK, ValA), Entry(KeyEq, ValBad)>>

Ascending(q) == \A i, j \in 1..Len(q) : i < j => Less(q[i].key, q[j].key)

\* C16: the map and every snapshot hold their entries in strictly ascending
\* key order, so the sequence is fixed by the contents, however set_var,
\* remove_var and fill built them: the map at rest is the ascending sequence of
\* the entries the calls left.  A snapshot has as many pairs as the map had
\* entries; each next() takes the first pair off, a pair whose key is below all
\* that remain and above all yielded before, until none is left.
C16_AscendingOrder ==
    /\ [](/\ Ascending(env_map)
          /\ lock = 0 =>
                /\ Range(env_map) = EntriesOf(seq_map)
                /\ Len(env_map) = Cardinality(EntriesOf(seq_map))
          /\ \A t \in Threads : iter[t].live =>
                /\ Ascending(iter[t].inner)
                /\ \A y \in iter[t].yielded : \A i \in 1..Len(iter[t].inner) :
                        Less(y.key, iter[t].inner[i].key)
                /\ Len(iter[t].inner) + Cardinality(iter[t].yielded)
                        = Cardinality(iter[t].taken)
                /\ Range(iter[t].inner) \cup iter[t].yielded = iter[t].taken)
    /\ [][\A t \in Threads :
            NextStep(t) /\ ~iter[t].text /\ iter[t].inner # <<>> =>
                /\ ret'[t].value = <<"Some", iter[t].inner[1].key, iter[t].inner[1].val>>
                /\ iter'[t].inner = Tail(iter[t].inner)
                /\ iter'[t].yielded = iter[t].yielded \cup {iter[t].inner[1]}
                /\ iter[t].inner[1] \notin iter[t].yielded]_vars

\* C16 happens: a snapshot of four entries has yielded "K" and "K\0" and holds
\* "K=" and the key that is not UTF-8, in that order.
C16_Witness ==
    /\ iter[1].live /\ ~iter[1].text
    /\ iter[1].yielded = {Entry(KeyK, ValBad), Entry(KeyNul, ValA)}
    /\ iter[1].inner = <<Entry(KeyEq, ValA), Entry(KeyBad, ValA)>>
    /\ ret[1] = Ret("next", <<>>, <<"Some", KeyNul, ValA>>)

\* The keys of the entries of q.
KeysOf(q) == {q[i].key : i \in 1..Len(q)}

\* C18: a step that changes the map is a step of a set_var (by itself or for
\* a pair of fill) or of a remove_var, and it leaves the presence and the value
\* of every key but the call's own as they were; every step of var_os, var,
\* vars_os and vars, every next() of an iterator, the one that panics
\* included, and the drop of an iterator leave the map as it is.
C18_Frame ==
    /\ [][env_map' # env_map =>
            \E t \in Threads :
                /\ lock = t
                /\ op[t].name \in Setters \cup {"remove_var"}
                /\ \A k \in AllKeys \ {CurKey(t)} :
                        MapGet(env_map', k) = MapGet(env_map, k)
                /\ KeysOf(env_map') \ {CurKey(t)} = KeysOf(env_map) \ {CurKey(t)}
                /\ op[t].name = "remove_var" => CurKey(t) \notin KeysOf(env_map')
                /\ op[t].name \in Setters => CurKey(t) \in KeysOf(env_map')]_vars
    /\ [][\A t \in Threads :
            \/ op[t].name \in Readers \cup Listers /\ pc'[t] # pc[t]
            \/ NextStep(t)
            \/ iter[t].live /\ ~iter'[t].live
            => env_map' = env_map]_vars

\* C18 happens: a set_var of "K\0" is in the middle of its insert, with the
\* entries of "K" and of the key that is not UTF-8 in the map as they were.
C18_Witness ==
    /\ pc[1] = "write" /\ op[1].name = "set_var" /\ CurKey(1) = KeyNul
    /\ env_map = <<Entry(KeyK, ValBad), Entry(KeyNul, PARTIAL), Entry(KeyBad, ValA)>>

\* C17: a var and the set_var that follows it are two holds of the lock: the
\* thread does not hold the lock between them, and its set_var stores the
\* value derived from what the var returned over whatever the map holds by
\* then, the update of another thread that took effect in between included.
C17_TwoCallsNotAtomic ==
    /\ [](\A t \in Threads :
            pc[t] = "idle" /\ ret[t].name = "var" => lock # t)
    /\ [][\A t \in Threads :
            pc[t] = "write" /\ rmw[t].read # <<"None">> /\ pc'[t] = "idle" =>
                MapGet(env_map', KeyK) = <<"Some", ToOsStr(Derived(rmw[t].read))>>]_vars

\* C17 happens, the lost update: thread 1 read "A"; the set_var("K", "é") of
\* another thread took effect and returned; thread 1 then stored "AA", and
\* "é" is gone.
C17_Witness ==
    \E u \in Threads \ {1} :
        /\ pc[1] = "idle" /\ ret[1].name = "set_var"
        /\ rmw[1] = [read |-> <<"Ok", ValA>>, missed |-> <<"Some", ValE>>]
        /\ pc[u] = "idle" /\ ret[u].name = "set_var"
        /\ env_map = <<Entry(KeyK, <<65, 65>>)>>

\* C20: fill takes the lock once per pair and holds it neither between pairs
\* nor while its source is advanced: a thread that waits for the lock, for a
\* set_var of fill or for the var_os of its source, does not hold it, and the
\* call ends.  A fill of the snapshot the thread has just taken leaves the map
\* as the snapshot found it.
C20_FillLocksPerPair ==
    /\ [](\A t \in Threads :
            /\ pc[t] = "lock" => lock # t
            /\ pc[t] = "source" => lock = t /\ op[t].holds = op[t].idx - 1
            /\ op[t].name \in Fillers /\ pc[t] \in {"crit", "write"} =>
                    op[t].holds = op[t].idx
            /\ iter[t].live /\ pc[t] \in {"idle", "lock"} =>
                    env_map = iter[t].inner
            /\ iter[t].live /\ pc[t] \in {"crit", "write"} =>
                    MapInsert(env_map, CurKey(t), CurVal(t)) = iter[t].inner)
    /\ \A t \in Threads : (pc[t] # "idle") ~> (pc[t] = "idle")

\* C20 happens: a fill from a lazy source has set its first pair, ("L", "é")
\* with the value var_os("K") returned, and its source holds the lock in
\* var_os("L") for the second.
C20_Witness ==
    /\ pc[1] = "source" /\ lock = 1
    /\ op[1].name = "fill" /\ op[1].idx = 2
    /\ op[1].src = <<Entry(KeyL, ValE), Entry(KeyK, FromStore(KeyL))>>
    /\ env_map = <<Entry(KeyK, ValE), Entry(KeyL, ValE)>>

====
